---- MODULE Spec2Model ----
(***************************************************************************)
(* canvas-bulk-marking-utility.py as a state machine: main() and the three *)
(* routines it drives (get_paginated_list, mark_all_discussions_read,      *)
(* mark_old_todos_complete) run against a Canvas server that keeps its     *)
(* data between requests and between two successive invocations of the     *)
(* program.  Strings that the code parses (the Link header, the URLs in    *)
(* it) are sequences of one-character strings.                             *)
(***************************************************************************)
EXTENDS Integers, Sequences, FiniteSets, TLC

\* ------------------------------------------------------------- bounds
MaxItems == 2
MaxCourses == 2
MaxTopics == 2
MaxPerPage == 2
\* follow-up requests one get_paginated_list call may issue in the model
MaxFollow == MaxItems + MaxCourses + MaxTopics

VARIABLES
    args,              \* argparse namespace: all, todos, discussions, announcements, unread
    run,               \* 1 = first invocation of the program, 2 = the one right after it
    pc,                \* position in the code
    exc,               \* the uncaught exception that ended the process, or "none"
    exit_code,         \* value main returned (-1 while running)
    cfg,               \* the server's pagination behaviour
    srv,               \* the server's data
    result,            \* get_paginated_list: result
    items_list,        \* get_paginated_list: items_list
    caller,            \* who called get_paginated_list
    followups,         \* requests.get calls made by the current get_paginated_list call
    courses_list,      \* main: courses_list
    cidx,              \* main: position of the for loop over courses_list
    course_id,         \* main / mark_all_discussions_read: course_id
    discussions_list,  \* mark_all_discussions_read: discussions_list
    tidx,              \* mark_all_discussions_read: position of the for loop
    activities,        \* mark_old_todos_complete: activities
    aidx,              \* mark_old_todos_complete: position of the for loop
    reqs,              \* HTTP requests issued by the routine invocation in progress
    topicRequested,    \* a discussion-topic request was issued in this run
    mutated,           \* a PUT/POST request was issued in this run
    prevMutated        \* a PUT/POST request was issued in the previous run

vars == <<args, run, pc, exc, exit_code, cfg, srv, result, items_list, caller,
          followups, courses_list, cidx, course_id, discussions_list, tidx,
          activities, aidx, reqs, topicRequested, mutated, prevMutated>>

\* ------------------------------------------------------------ strings
S_next == <<"n", "e", "x", "t">>
S_prev == <<"p", "r", "e", "v">>
S_first == <<"f", "i", "r", "s", "t">>
S_last == <<"l", "a", "s", "t">>
S_current == <<"c", "u", "r", "r", "e", "n", "t">>

Digits == <<"0", "1", "2", "3", "4", "5", "6", "7", "8", "9">>

\* str(n) for a one-digit n
Str(n) == <<Digits[n + 1]>>

\* F applied to the value of v, which is computed once
Once(v, F(_)) == CHOOSE r \in {F(x) : x \in {v}} : TRUE

\* the pieces of s between the separators at the positions seps (in order)
Pieces(s, seps) ==
    LET n == Cardinality(seps)
        pos(k) == CHOOSE i \in seps : Cardinality({j \in seps : j < i}) = k - 1
    IN  [k \in 1..(n + 1) |->
            SubSeq(s, IF k = 1 THEN 1 ELSE pos(k - 1) + 1,
                      IF k = n + 1 THEN Len(s) ELSE pos(k) - 1)]

\* s.split(c) for a one-character separator c
Split(s, c) ==
    Once(s, LAMBDA x : Once({i \in 1..Len(x) : x[i] = c}, LAMBDA seps : Pieces(x, seps)))

\* s.replace(c, '') for a one-character c
Replace(s, c) == SelectSeq(s, LAMBDA x : x # c)

\* ------------------------------------------------------- JSON values
Null == [t |-> "null"]
Dict(d) == [t |-> "dict", d |-> d]
StrV(s) == [t |-> "str", s |-> s]
JList(e) == [t |-> "list", elems |-> e]

\* the body Canvas sends with an error status
ErrObj == Dict([errors |-> "unauthorized"])

\* v[k] for a string key k: the value, or the exception Python raises
GetItem(v, k) ==
    IF v.t = "dict"
    THEN IF k \in DOMAIN v.d
         THEN [exc |-> "none", val |-> v.d[k]]
         ELSE [exc |-> "KeyError", val |-> Null]
    ELSE [exc |-> "TypeError", val |-> Null]

\* iteration over a JSON value: a list's elements, a dict's keys
Iter(v) ==
    IF v.t = "list" THEN v.elems
    ELSE IF v.t = "dict"
         THEN LET k == CHOOSE k \in DOMAIN v.d : TRUE IN <<StrV(k)>>
         ELSE <<>>

\* --------------------------------------------------------- the server
\* Canvas answers a listing request with one page of at most cfg.perPage
\* records and a Link header naming other pages of the same listing.
LayoutNone == <<>>
LayoutCanvas == <<S_current, S_next, S_prev, S_first, S_last>>
LayoutRfc == <<S_first, S_last, S_next>>

PageConfigs ==
    {[perPage |-> p, layout |-> LayoutCanvas, loops |-> FALSE] : p \in 1..MaxPerPage}
    \cup {[perPage |-> 1, layout |-> l, loops |-> FALSE] : l \in {LayoutNone, LayoutRfc}}
    \cup {[perPage |-> MaxPerPage, layout |-> LayoutCanvas, loops |-> TRUE]}

PlannerL == [k |-> "planner", c |-> 0]
CoursesL == [k |-> "courses", c |-> 0]
TopicsL(c) == [k |-> "topics", c |-> c]
NoListing == [k |-> "none", c |-> 0]
Listings == {PlannerL, CoursesL} \cup {TopicsL(c) : c \in 1..MaxCourses}
PageNums == 1..(Len(Digits) - 1)

Unknown == [known |-> FALSE, status |-> 0, err |-> FALSE, recs |-> <<>>]

SeqsUpTo(S, n) == UNION {[1..m -> S] : m \in 0..n}

ItemStates == {"none", "false", "true"}
CourseKinds == {"ok", "noid", "null"}
TopicKinds == {"unread", "read", "nokey", "null"}

\* what the planner-items listing may turn out to be
PlannerChoices ==
    {[known |-> TRUE, status |-> st, err |-> FALSE, recs |-> r] :
        st \in {200, 401}, r \in SeqsUpTo(ItemStates, MaxItems)}
    \cup {[known |-> TRUE, status |-> 401, err |-> TRUE, recs |-> <<>>]}

\* what the course listing may turn out to be
CourseChoices ==
    {[known |-> TRUE, status |-> 200, err |-> FALSE, recs |-> r] :
        r \in SeqsUpTo(CourseKinds, MaxCourses)}
    \cup {[known |-> TRUE, status |-> 401, err |-> TRUE, recs |-> <<>>]}

\* the discussion topics the server is known to hold, over all courses
TopicsHeld(s) ==
    LET sum[c \in 0..MaxCourses] ==
            IF c = 0 THEN 0 ELSE sum[c - 1] + Len(s.topics[c].recs)
    IN  sum[MaxCourses]

\* what one course's discussion-topic listing may turn out to be, on a server
\* that holds at most MaxTopics topics in all
TopicChoices(s) ==
    {[known |-> TRUE, status |-> 200, err |-> FALSE, recs |-> r] :
        r \in SeqsUpTo(TopicKinds, MaxTopics - TopicsHeld(s))}
    \cup {[known |-> TRUE, status |-> 403, err |-> TRUE, recs |-> <<>>]}

PlannableType(i) == IF i % 2 = 1 THEN "assignment" ELSE "quiz"
OverrideId(i) == i + MaxItems

\* the JSON record of planner item i whose override state is st
ItemRec(i, st) ==
    Dict([plannable_type |-> PlannableType(i),
          plannable_id |-> i,
          plannable |-> Dict([title |-> "title"]),
          plannable_date |-> StrV("2020-01-01T00:00:00Z"),
          planner_override |->
              IF st = "none" THEN Null
              ELSE Dict([id |-> OverrideId(i), marked_complete |-> (st = "true")])])

CourseRec(i, kind) ==
    CASE kind = "ok" -> Dict([id |-> i, name |-> "name"])
      [] kind = "noid" -> Dict([name |-> "name"])
      [] OTHER -> Null

TopicRec(i, kind) ==
    CASE kind = "unread" -> Dict([id |-> i, read_state |-> "unread"])
      [] kind = "read" -> Dict([id |-> i, read_state |-> "read"])
      [] kind = "nokey" -> Dict([title |-> "title"])
      [] OTHER -> Null

Entry(s, L) ==
    CASE L.k = "planner" -> s.planner
      [] L.k = "courses" -> s.courses
      [] L.k = "topics" -> s.topics[L.c]
      [] OTHER -> Unknown

Records(s, L) ==
    LET e == Entry(s, L)
    IN  [i \in 1..Len(e.recs) |->
            CASE L.k = "planner" -> ItemRec(i, e.recs[i])
              [] L.k = "courses" -> CourseRec(i, e.recs[i])
              [] OTHER -> TopicRec(i, e.recs[i])]

NumPages(s, L) ==
    LET n == Len(Entry(s, L).recs)
    IN  IF n = 0 THEN 1 ELSE (n + cfg.perPage - 1) \div cfg.perPage

Min(a, b) == IF a < b THEN a ELSE b

PageRecs(s, L, k) ==
    LET r == Records(s, L)
    IN  SubSeq(r, (k - 1) * cfg.perPage + 1, Min(k * cfg.perPage, Len(r)))

Path(L) ==
    CASE L.k = "planner" -> <<"/", "p", "l">>
      [] L.k = "courses" -> <<"/", "c">>
      [] OTHER -> <<"/", "c", "/">> \o Str(L.c) \o <<"/", "d">>

UrlOf(L, k) == Path(L) \o <<"?", "p", "a", "g", "e", "=">> \o Str(k)

\* the page a relation of page k (of n) points to, 0 when there is none
Target(label, k, n) ==
    CASE label = S_current -> k
      [] label = S_first -> 1
      [] label = S_last -> n
      [] label = S_next -> IF k < n THEN k + 1 ELSE IF cfg.loops THEN 1 ELSE 0
      [] label = S_prev -> IF k > 1 THEN k - 1 ELSE 0
      [] OTHER -> 0

\* the relations the server advertises on page k of listing L
Rels(s, L, k) ==
    Once(NumPages(s, L),
         LAMBDA n :
             Once(SelectSeq([i \in 1..Len(cfg.layout) |->
                                [label |-> cfg.layout[i],
                                 page |-> Target(cfg.layout[i], k, n)]],
                            LAMBDA r : r.page # 0),
                  LAMBDA some :
                      [i \in 1..Len(some) |->
                          [label |-> some[i].label, url |-> UrlOf(L, some[i].page)]]))

\* <url>; rel="label"
FormatEntry(r) ==
    <<"<">> \o r.url \o <<">", ";", " ", "r", "e", "l", "=", "\"">> \o r.label \o <<"\"">>

\* the entries joined with commas
FormatLink(rels) ==
    Once([i \in 1..Len(rels) |-> FormatEntry(rels[i])],
         LAMBDA es :
             LET join[i \in 0..Len(es)] ==
                     IF i = 0 THEN <<>>
                     ELSE IF i = 1 THEN es[1]
                     ELSE join[i - 1] \o <<",">> \o es[i]
             IN  join[Len(es)])

NoPage == [l |-> NoListing, k |-> 0]

NoResponse ==
    [status |-> 0, body |-> Null, hasLink |-> FALSE, link |-> <<>>, page |-> NoPage]

NotFound ==
    [status |-> 404, body |-> ErrObj, hasLink |-> FALSE, link |-> <<>>, page |-> NoPage]

\* the server's answer to a request for page k of listing L
Respond(s, L, k) ==
    LET e == Entry(s, L)
    IN  IF ~e.known \/ k \notin 1..NumPages(s, L) THEN NotFound
        ELSE IF e.err
        THEN [status |-> e.status, body |-> ErrObj, hasLink |-> FALSE, link |-> <<>>,
              page |-> [l |-> L, k |-> k]]
        ELSE Once(Rels(s, L, k),
                  LAMBDA rels :
                      [status |-> e.status, body |-> JList(PageRecs(s, L, k)),
                       hasLink |-> Len(rels) > 0, link |-> FormatLink(rels),
                       page |-> [l |-> L, k |-> k]])

\* the server's answer to GET url
Get(s, url) ==
    LET hits == {p \in Listings \X PageNums : UrlOf(p[1], p[2]) = url}
    IN  IF hits = {} THEN NotFound
        ELSE LET p == CHOOSE p \in hits : TRUE IN Respond(s, p[1], p[2])

\* PUT .../courses/c/discussion_topics/t/read_all.json
ServeReadAll(s, c, t) ==
    IF c \in 1..MaxCourses /\ s.topics[c].known /\ t \in 1..Len(s.topics[c].recs)
       /\ s.topics[c].recs[t] = "unread"
    THEN [s EXCEPT !.topics[c].recs[t] = "read"]
    ELSE s

\* POST /planner/overrides?plannable_type=ty&plannable_id=id&marked_complete=True
ServeCreateOverride(s, ty, id) ==
    IF s.planner.known /\ id \in 1..Len(s.planner.recs) /\ PlannableType(id) = ty
       /\ s.planner.recs[id] = "none"
    THEN [s EXCEPT !.planner.recs[id] = "true"]
    ELSE s

\* PUT /planner/overrides/ov?marked_complete=true
ServeUpdateOverride(s, ov) ==
    LET i == ov - MaxItems
    IN  IF s.planner.known /\ i \in 1..Len(s.planner.recs) /\ s.planner.recs[i] # "none"
        THEN [s EXCEPT !.planner.recs[i] = "true"]
        ELSE s

\* ---------------------------------------------------- HTTP requests
Request(m, ep) == [m |-> m, ep |-> ep, c |-> 0, id |-> 0, ty |-> "", url |-> <<>>]
GetListing(ep, c) == [Request("GET", ep) EXCEPT !.c = c]
GetUrl(url) == [Request("GET", "url") EXCEPT !.url = url]
PutReadAll(c, t) == [Request("PUT", "read_all") EXCEPT !.c = c, !.id = t]
PostOverride(ty, id) == [Request("POST", "overrides") EXCEPT !.ty = ty, !.id = id]
PutOverride(ov) == [Request("PUT", "overrides") EXCEPT !.id = ov]

\* -------------------------------------------------- get_paginated_list
\* the label with its quotes left on
LabelOfQuoted(part) ==
    Once(Split(part, "="), LAMBDA eq : eq[Len(eq)])

\* line 38: label.split('=')[-1].replace('"', '')
LabelOf(part) ==
    Once(Split(part, "="), LAMBDA eq : Replace(eq[Len(eq)], "\""))

\* the url with its opening bracket left on
UrlInBracket(part) == Replace(part, ">")

\* line 39: url.replace('<', '').replace('>', '')
UrlIn(part) == Replace(Replace(part, "<"), ">")

\* line 40 over the whole loop: pagination_urls.update({label: url}) keeps,
\* for each label, the url of the last entry that carries it
UpdateAll(labels, urls) ==
    LET last(l) == CHOOSE i \in 1..Len(labels) :
                       /\ labels[i] = l
                       /\ \A j \in (i + 1)..Len(labels) : labels[j] # l
    IN  [l \in {labels[i] : i \in 1..Len(labels)} |-> urls[last(l)]]

\* lines 36-40 for the entries already split at ';'
ParseParts(parts) ==
    IF \E i \in 1..Len(parts) : Len(parts[i]) # 2
    THEN [exc |-> "ValueError", urls |-> <<>>]
    ELSE [exc |-> "none",
          urls |-> Once([i \in 1..Len(parts) |-> LabelOf(parts[i][2])],
                        LAMBDA labels :
                            UpdateAll(labels, [i \in 1..Len(parts) |-> UrlIn(parts[i][1])]))]

\* lines 33-40: the dictionary the for loop builds from the header, or the
\* ValueError of an entry that does not unpack into url, label
ParseLinks(header) ==
    Once(Split(header, ","),
         LAMBDA links : Once([i \in 1..Len(links) |-> Split(links[i], ";")],
                             LAMBDA parts : ParseParts(parts)))

\* lines 30-44: the URL of the next page, or the exception raised on the way
NextUrl(resp) ==
    IF ~resp.hasLink THEN [exc |-> "KeyError", url |-> <<>>]
    ELSE Once(ParseLinks(resp.link),
              LAMBDA p : IF p.exc # "none" THEN [exc |-> p.exc, url |-> <<>>]
                         ELSE IF S_next \notin DOMAIN p.urls
                         THEN [exc |-> "KeyError", url |-> <<>>]
                         ELSE [exc |-> "none", url |-> p.urls[S_next]])

\* the new page put in front of the accumulator
ExtendInFront(items, body) == JList(Iter(body) \o items.elems)

\* line 45: items_list.extend(result.json())
Extend(items, body) == JList(items.elems \o Iter(body))

EmptyList == JList(<<>>)

Running == exc = "none"

\* an exception nothing catches: the interpreter prints the traceback and stops
Crash(e) ==
    /\ exc' = e
    /\ UNCHANGED <<args, run, pc, exit_code, cfg, srv, result, items_list, caller,
                   followups, courses_list, cidx, course_id, discussions_list, tidx,
                   activities, aidx, reqs, topicRequested, mutated, prevMutated>>

\* lines 24-26
GetPaginatedListEnter ==
    /\ Running /\ pc = "pag_enter"
    /\ items_list' = result.body
    /\ followups' = 0
    /\ pc' = "pag_loop"
    /\ UNCHANGED <<args, run, exc, exit_code, cfg, srv, result, caller, courses_list,
                   cidx, course_id, discussions_list, tidx, activities, aidx, reqs,
                   topicRequested, mutated, prevMutated>>

\* line 51, and the assignment of the returned list in the caller
\* (line 79, line 118 or line 63)
PaginatedReturn ==
    /\ result' = NoResponse
    /\ items_list' = EmptyList
    /\ followups' = 0
    /\ caller' = "none"
    /\ CASE caller = "todos" ->
              /\ activities' = items_list /\ aidx' = 1 /\ pc' = "todo_loop"
              /\ UNCHANGED <<courses_list, cidx, discussions_list, tidx>>
         [] caller = "courses" ->
              /\ courses_list' = items_list /\ cidx' = 1 /\ pc' = "course_loop"
              /\ UNCHANGED <<activities, aidx, discussions_list, tidx>>
         [] OTHER ->
              /\ discussions_list' = items_list /\ tidx' = 1 /\ pc' = "disc_loop"
              /\ UNCHANGED <<activities, aidx, courses_list, cidx>>
    /\ UNCHANGED <<args, run, exc, exit_code, cfg, srv, course_id, reqs,
                   topicRequested, mutated, prevMutated>>

\* lines 28-49: one turn of the while loop
GetPaginatedListLoop ==
    /\ Running /\ pc = "pag_loop"
    /\ \E n \in {NextUrl(result)} :
           IF n.exc = "KeyError" THEN PaginatedReturn
           ELSE IF n.exc # "none" THEN Crash(n.exc)
           ELSE /\ followups < MaxFollow
                /\ \E resp \in {Get(srv, n.url)} :
                       /\ result' = resp
                       /\ reqs' = Append(reqs, GetUrl(n.url))
                       /\ followups' = followups + 1
                       /\ topicRequested' = (topicRequested \/ caller = "discussions")
                       /\ IF items_list.t = "list"
                          THEN items_list' = Extend(items_list, resp.body) /\ exc' = exc
                          ELSE items_list' = items_list /\ exc' = "AttributeError"
                /\ UNCHANGED <<args, run, pc, exit_code, cfg, srv, caller, courses_list,
                               cidx, course_id, discussions_list, tidx, activities, aidx,
                               mutated, prevMutated>>

\* ------------------------------------------- mark_all_discussions_read
\* every topic taken for unread
IsUnreadAlways(state) == TRUE

\* line 67: topic['read_state'] == 'unread'
IsUnread(state) == state = "unread"

\* lines 66-68 for one topic: the exception raised, or whether a PUT is sent
TopicOutcome(topic, c) ==
    LET id == GetItem(topic, "id")
        rs == GetItem(topic, "read_state")
    IN  IF id.exc # "none" THEN [exc |-> id.exc, send |-> FALSE, req |-> Request("", "")]
        ELSE IF rs.exc # "none" THEN [exc |-> rs.exc, send |-> FALSE, req |-> Request("", "")]
        ELSE [exc |-> "none", send |-> IsUnread(rs.val), req |-> PutReadAll(c, id.val)]

\* lines 55-63
MarkAllDiscussionsGet ==
    /\ Running /\ pc = "disc_get"
    /\ \E e \in (IF srv.topics[course_id].known THEN {srv.topics[course_id]}
                 ELSE TopicChoices(srv)) :
          LET s1 == [srv EXCEPT !.topics[course_id] = e]
              resp == Respond(s1, TopicsL(course_id), 1)
          IN  /\ srv' = s1
              /\ reqs' = <<GetListing("topics", course_id)>>
              /\ topicRequested' = TRUE
              /\ IF resp.status # 200
                 THEN /\ pc' = "course_loop" /\ cidx' = cidx + 1
                      /\ UNCHANGED <<result, caller>>
                 ELSE /\ pc' = "pag_enter" /\ result' = resp /\ caller' = "discussions"
                      /\ cidx' = cidx
    /\ UNCHANGED <<args, run, exc, exit_code, cfg, items_list, followups, courses_list,
                   course_id, discussions_list, tidx, activities, aidx, mutated,
                   prevMutated>>

\* lines 64-71: one turn of the for loop
MarkAllDiscussionsTopic ==
    /\ Running /\ pc = "disc_loop" /\ tidx <= Len(Iter(discussions_list))
    /\ LET o == TopicOutcome(Iter(discussions_list)[tidx], course_id)
       IN  IF o.exc \notin {"none", "TypeError"} THEN Crash(o.exc)
           ELSE /\ tidx' = tidx + 1
                /\ IF o.exc = "none" /\ o.send
                   THEN /\ reqs' = Append(reqs, o.req)
                        /\ srv' = ServeReadAll(srv, o.req.c, o.req.id)
                        /\ mutated' = TRUE
                        /\ topicRequested' = TRUE
                   ELSE UNCHANGED <<reqs, srv, mutated, topicRequested>>
                /\ UNCHANGED <<args, run, pc, exc, exit_code, cfg, result, items_list,
                               caller, followups, courses_list, cidx, course_id,
                               discussions_list, activities, aidx, prevMutated>>

\* the for loop of line 64 is exhausted: the routine returns to line 131
MarkAllDiscussionsReturn ==
    /\ Running /\ pc = "disc_loop" /\ tidx > Len(Iter(discussions_list))
    /\ pc' = "course_loop"
    /\ cidx' = cidx + 1
    /\ discussions_list' = EmptyList
    /\ tidx' = 0
    /\ UNCHANGED <<args, run, exc, exit_code, cfg, srv, result, items_list, caller,
                   followups, courses_list, course_id, activities, aidx, reqs,
                   topicRequested, mutated, prevMutated>>

\* --------------------------------------------- mark_old_todos_complete
\* an override updated whatever its completion flag
NeedsUpdateAlways(flag) == TRUE

\* line 85: item['planner_override']['marked_complete'] == False
NeedsUpdate(flag) == flag = FALSE

\* lines 81-87 for one item: the exception raised, or the request sent
ItemOutcome(item) ==
    LET ov == GetItem(item, "planner_override")
        pl == GetItem(item, "plannable")
        ti == IF pl.exc = "none" THEN GetItem(pl.val, "title") ELSE pl
        da == GetItem(item, "plannable_date")
        ty == GetItem(item, "plannable_type")
        id == GetItem(item, "plannable_id")
        none == Request("", "")
        Raise(e) == [exc |-> e, send |-> FALSE, req |-> none]
    IN  IF ov.exc # "none" THEN Raise(ov.exc)
        ELSE IF ov.val = Null
        THEN IF ti.exc # "none" THEN Raise(ti.exc)
             ELSE IF da.exc # "none" THEN Raise(da.exc)
             ELSE IF da.val.t # "str" THEN Raise("TypeError")
             ELSE IF ty.exc # "none" THEN Raise(ty.exc)
             ELSE IF id.exc # "none" THEN Raise(id.exc)
             ELSE [exc |-> "none", send |-> TRUE, req |-> PostOverride(ty.val, id.val)]
        ELSE LET mc == GetItem(ov.val, "marked_complete")
                 oi == GetItem(ov.val, "id")
             IN  IF mc.exc # "none" THEN Raise(mc.exc)
                 ELSE IF ~NeedsUpdate(mc.val) THEN [exc |-> "none", send |-> FALSE, req |-> none]
                 ELSE IF ti.exc # "none" THEN Raise(ti.exc)
                 ELSE IF da.exc # "none" THEN Raise(da.exc)
                 ELSE IF da.val.t # "str" THEN Raise("TypeError")
                 ELSE IF oi.exc # "none" THEN Raise(oi.exc)
                 ELSE [exc |-> "none", send |-> TRUE, req |-> PutOverride(oi.val)]

\* what the server does with a request that changes an override
ServeOverride(s, req) ==
    IF req.m = "POST" THEN ServeCreateOverride(s, req.ty, req.id)
    ELSE ServeUpdateOverride(s, req.id)

\* lines 75-79
MarkOldTodosGet ==
    /\ Running /\ pc = "todo_get"
    /\ \E e \in (IF srv.planner.known THEN {srv.planner} ELSE PlannerChoices) :
          LET s1 == [srv EXCEPT !.planner = e]
          IN  /\ srv' = s1
              /\ result' = Respond(s1, PlannerL, 1)
    /\ reqs' = <<GetListing("planner", 0)>>
    /\ caller' = "todos"
    /\ pc' = "pag_enter"
    /\ UNCHANGED <<args, run, exc, exit_code, cfg, items_list, followups, courses_list,
                   cidx, course_id, discussions_list, tidx, activities, aidx,
                   topicRequested, mutated, prevMutated>>

\* lines 80-88: one turn of the for loop
MarkOldTodosItem ==
    /\ Running /\ pc = "todo_loop" /\ aidx <= Len(Iter(activities))
    /\ LET o == ItemOutcome(Iter(activities)[aidx])
       IN  IF o.exc # "none" THEN Crash(o.exc)
           ELSE /\ aidx' = aidx + 1
                /\ IF o.send
                   THEN /\ reqs' = Append(reqs, o.req)
                        /\ srv' = ServeOverride(srv, o.req)
                        /\ mutated' = TRUE
                   ELSE UNCHANGED <<reqs, srv, mutated>>
                /\ UNCHANGED <<args, run, pc, exc, exit_code, cfg, result, items_list,
                               caller, followups, courses_list, cidx, course_id,
                               discussions_list, tidx, activities, topicRequested,
                               prevMutated>>

\* line 89: the loop is exhausted and the routine returns to line 109
MarkOldTodosReturn ==
    /\ Running /\ pc = "todo_loop" /\ aidx > Len(Iter(activities))
    /\ pc' = "main_courses"
    /\ activities' = EmptyList
    /\ aidx' = 0
    /\ UNCHANGED <<args, run, exc, exit_code, cfg, srv, result, items_list, caller,
                   followups, courses_list, cidx, course_id, discussions_list, tidx,
                   reqs, topicRequested, mutated, prevMutated>>

\* ---------------------------------------------------------------- main
\* line 106
WantsTodos(a) == a.all \/ a.todos

\* line 109
WantsDiscussions(a) == a.all \/ a.discussions \/ a.announcements

\* the status of the course-list response ignored
CourseListExitNever(status) == -1

\* lines 114-116: the value main returns right after the course-list GET,
\* -1 when it goes on
CourseListExit(status) == IF status # 200 THEN 1 ELSE -1

\* lines 106-107
MainTodos ==
    /\ Running /\ pc = "main"
    /\ pc' = IF WantsTodos(args) THEN "todo_get" ELSE "main_courses"
    /\ UNCHANGED <<args, run, exc, exit_code, cfg, srv, result, items_list, caller,
                   followups, courses_list, cidx, course_id, discussions_list, tidx,
                   activities, aidx, reqs, topicRequested, mutated, prevMutated>>

\* lines 109-118, and line 133 when no course work was asked for
MainCourses ==
    /\ Running /\ pc = "main_courses"
    /\ IF ~WantsDiscussions(args)
       THEN /\ pc' = "done" /\ exit_code' = 0
            /\ UNCHANGED <<srv, result, caller, reqs>>
       ELSE \E e \in (IF srv.courses.known THEN {srv.courses} ELSE CourseChoices) :
               LET s1 == [srv EXCEPT !.courses = e]
                   resp == Respond(s1, CoursesL, 1)
               IN  /\ srv' = s1
                   /\ reqs' = <<GetListing("courses", 0)>>
                   /\ IF CourseListExit(resp.status) # -1
                      THEN /\ pc' = "done" /\ exit_code' = CourseListExit(resp.status)
                           /\ UNCHANGED <<result, caller>>
                      ELSE /\ pc' = "pag_enter" /\ result' = resp /\ caller' = "courses"
                           /\ exit_code' = exit_code
    /\ UNCHANGED <<args, run, exc, cfg, items_list, followups, courses_list, cidx,
                   course_id, discussions_list, tidx, activities, aidx, topicRequested,
                   mutated, prevMutated>>

\* lines 119-131: one turn of the for loop, up to the call of line 131
MainCourse ==
    /\ Running /\ pc = "course_loop" /\ cidx <= Len(Iter(courses_list))
    /\ LET course == Iter(courses_list)[cidx]
           id == GetItem(course, "id")
       IN  IF id.exc = "TypeError"
           THEN /\ cidx' = cidx + 1
                /\ UNCHANGED <<pc, exc, course_id>>
           ELSE IF id.exc # "none"
           THEN /\ exc' = id.exc
                /\ UNCHANGED <<pc, cidx, course_id>>
           ELSE /\ course_id' = id.val
                /\ pc' = "disc_get"
                /\ UNCHANGED <<exc, cidx>>
    /\ UNCHANGED <<args, run, exit_code, cfg, srv, result, items_list, caller,
                   followups, courses_list, discussions_list, tidx, activities, aidx,
                   reqs, topicRequested, mutated, prevMutated>>

\* line 133 after the for loop
MainReturn ==
    /\ Running /\ pc = "course_loop" /\ cidx > Len(Iter(courses_list))
    /\ pc' = "done"
    /\ exit_code' = 0
    /\ UNCHANGED <<args, run, exc, cfg, srv, result, items_list, caller, followups,
                   courses_list, cidx, course_id, discussions_list, tidx, activities,
                   aidx, reqs, topicRequested, mutated, prevMutated>>

\* the user runs the same command line again after the first run returned
Rerun ==
    /\ Running /\ pc = "done" /\ run = 1
    /\ run' = 2
    /\ pc' = "main"
    /\ exit_code' = -1
    /\ reqs' = <<>>
    /\ topicRequested' = FALSE
    /\ prevMutated' = mutated
    /\ mutated' = FALSE
    /\ courses_list' = EmptyList
    /\ cidx' = 0
    /\ course_id' = 0
    /\ UNCHANGED <<args, exc, cfg, srv, result, items_list, caller, followups,
                   discussions_list, tidx, activities, aidx>>

\* ------------------------------------------------------ specification
NoArgs ==
    [all |-> FALSE, todos |-> FALSE, discussions |-> FALSE, announcements |-> FALSE,
     unread |-> FALSE]

\* lines 96-100: the command lines considered
ArgChoices ==
    {[NoArgs EXCEPT !.todos = TRUE], [NoArgs EXCEPT !.discussions = TRUE],
     [NoArgs EXCEPT !.announcements = TRUE], [NoArgs EXCEPT !.unread = TRUE],
     [NoArgs EXCEPT !.all = TRUE]}

Init ==
    /\ args \in ArgChoices
    /\ cfg \in PageConfigs
    /\ run = 1
    /\ pc = "main"
    /\ exc = "none"
    /\ exit_code = -1
    /\ srv = [planner |-> Unknown, courses |-> Unknown,
              topics |-> [c \in 1..MaxCourses |-> Unknown]]
    /\ result = NoResponse
    /\ items_list = EmptyList
    /\ caller = "none"
    /\ followups = 0
    /\ courses_list = EmptyList
    /\ cidx = 0
    /\ course_id = 0
    /\ discussions_list = EmptyList
    /\ tidx = 0
    /\ activities = EmptyList
    /\ aidx = 0
    /\ reqs = <<>>
    /\ topicRequested = FALSE
    /\ mutated = FALSE
    /\ prevMutated = FALSE

Step ==
    \/ MainTodos
    \/ MarkOldTodosGet
    \/ GetPaginatedListEnter
    \/ GetPaginatedListLoop
    \/ MarkOldTodosItem
    \/ MarkOldTodosReturn
    \/ MainCourses
    \/ MainCourse
    \/ MarkAllDiscussionsGet
    \/ MarkAllDiscussionsTopic
    \/ MarkAllDiscussionsReturn
    \/ MainReturn

\* one invocation of the program
Next == Step

Spec == Init /\ [][Next]_vars

\* the interpreter keeps executing the program until it returns or dies
FairSpec == Spec /\ WF_vars(Next)

\* two invocations in succession
NextTwice ==
    \/ Step
    \/ Rerun

TwiceSpec == Init /\ [][NextTwice]_vars

\* ------------------------------------------------------------- claims
ListingOf(who) ==
    CASE who = "todos" -> PlannerL
      [] who = "courses" -> CoursesL
      [] OTHER -> TopicsL(course_id)

\* the relations the server put in the Link header of a response it sent
Advertised(resp) ==
    IF resp.page = NoPage \/ Entry(srv, resp.page.l).err THEN <<>>
    ELSE Rels(srv, resp.page.l, resp.page.k)

NextRels(resp) ==
    {Advertised(resp)[i].url : i \in {j \in 1..Len(Advertised(resp)) :
                                        Advertised(resp)[j].label = S_next}}

\* the pages of the chain that starts at page 1 of listing L
ChainLen(L) ==
    IF Entry(srv, L).err \/ \A i \in 1..Len(cfg.layout) : cfg.layout[i] # S_next
    THEN 1 ELSE NumPages(srv, L)

ConcatPages(L, n) ==
    LET cat[i \in 0..n] == IF i = 0 THEN <<>> ELSE cat[i - 1] \o PageRecs(srv, L, i)
    IN  cat[n]

FollowUps(rs) == SelectSeq(rs, LAMBDA r : r.m = "GET" /\ r.ep = "url")
Puts(rs) == SelectSeq(rs, LAMBDA r : r.m = "PUT")
Posts(rs) == SelectSeq(rs, LAMBDA r : r.m = "POST")

InHelper == pc \in {"pag_enter", "pag_loop"}
Terminal == pc = "done" \/ ~Running

\* C1: when get_paginated_list returns for a response that starts a chain of
\* N pages, the list it returns is the concatenation of the N pages' records
\* in page order and it has issued exactly N - 1 follow-up GET requests.
C1_Concatenation ==
    [][(pc = "pag_loop" /\ pc' # "pag_loop") =>
         LET L == ListingOf(caller)
             returned == IF caller = "todos" THEN activities'
                         ELSE IF caller = "courses" THEN courses_list'
                         ELSE discussions_list'
         IN  /\ ~Entry(srv, L).err => returned = JList(ConcatPages(L, ChainLen(L)))
             /\ Len(FollowUps(reqs')) = ChainLen(L) - 1]_vars

C1_Witness ==
    /\ pc = "todo_loop" /\ aidx = 1
    /\ Len(FollowUps(reqs)) = MaxItems - 1
    /\ Len(activities.elems) = MaxItems
    /\ MaxItems > 1

\* C2: after each response a follow-up GET is issued exactly when the Link
\* header of that response has a next relation, and it goes to that relation's
\* URL; otherwise the helper returns what it has with no further request.
C2_FollowsNextOnly ==
    [][(pc = "pag_loop" /\ Running) =>
         IF NextRels(result) = {}
         THEN /\ reqs' = reqs
              /\ pc' # "pag_loop"
              /\ items_list \in {activities', courses_list', discussions_list'}
         ELSE /\ \E u \in NextRels(result) : reqs' = Append(reqs, GetUrl(u))
              /\ pc' = "pag_loop"]_vars

C2_Witness ==
    /\ pc = "pag_loop" /\ followups > 0
    /\ cfg.layout = LayoutRfc
    /\ result.hasLink /\ NextRels(result) = {}

\* C3: when mark_all_discussions_read is over, the PUT requests it issued are
\* exactly the read_all requests of the unread topics of its list, one each,
\* with the topic's id under the course id.
UnreadTopics(list) ==
    SelectSeq(Iter(list), LAMBDA t : t.t = "dict" /\ "read_state" \in DOMAIN t.d
                                     /\ "id" \in DOMAIN t.d /\ t.d.read_state = "unread")

C3_ExactlyUnreadMarked ==
    (pc = "disc_loop" /\ (tidx > Len(Iter(discussions_list)) \/ ~Running)) =>
        LET unread == UnreadTopics(discussions_list)
        IN  /\ Len(Puts(reqs)) = Len(unread)
            /\ \A i \in 1..Len(unread) : Puts(reqs)[i] = PutReadAll(course_id, unread[i].d.id)
            /\ Posts(reqs) = <<>>

\* C4: each planner item processed has one of three outcomes: without an
\* override one POST with its plannable type and id, with an override not
\* marked complete one PUT to that override's id, otherwise no request.
C4_ThreeOutcomes ==
    [][(pc = "todo_loop" /\ Running /\ aidx <= Len(Iter(activities))
        /\ Iter(activities)[aidx].t = "dict") =>
         LET item == Iter(activities)[aidx].d
             ov == item.planner_override
         IN  IF ov = Null
             THEN reqs' = Append(reqs, PostOverride(item.plannable_type, item.plannable_id))
             ELSE IF ov.d.marked_complete = FALSE
             THEN reqs' = Append(reqs, PutOverride(ov.d.id))
             ELSE reqs' = reqs]_vars

C4_Witness ==
    /\ pc = "todo_loop" /\ aidx > Len(Iter(activities))
    /\ Len(Posts(reqs)) > 0 /\ Len(Puts(reqs)) > 0

\* C5: a run that returns has exit code 1 exactly when it asked for course
\* work and the course-list GET was not a success, and then it issued no
\* discussion-topic request; every other run that returns has exit code 0.
C5_ExitCode ==
    pc = "done" =>
        IF WantsDiscussions(args) /\ srv.courses.status # 200
        THEN exit_code = 1 /\ ~topicRequested
        ELSE exit_code = 0

C5_Witness ==
    pc = "done" /\ exit_code = 1 /\ args.all /\ mutated

\* C6: a malformed course or topic record is skipped and every later record
\* of the list is still processed.
Malformed(rec, key) == rec.t # "dict" \/ key \notin DOMAIN rec.d

C6_MalformedSkipped ==
    /\ (Terminal /\ pc \in {"done", "course_loop", "disc_loop"}) =>
          \A j \in 1..Len(Iter(courses_list)) :
              (/\ ~Malformed(Iter(courses_list)[j], "id")
               /\ \E k \in 1..(j - 1) : Malformed(Iter(courses_list)[k], "id"))
              => (j < cidx \/ (j = cidx /\ pc = "disc_loop"))
    /\ (pc = "disc_loop" /\ (tidx > Len(Iter(discussions_list)) \/ ~Running)) =>
          \A j \in 1..Len(Iter(discussions_list)) :
              LET t == Iter(discussions_list)[j]
              IN  (/\ ~Malformed(t, "id") /\ ~Malformed(t, "read_state")
                   /\ t.d.read_state = "unread"
                   /\ \E k \in 1..(j - 1) :
                         \/ Malformed(Iter(discussions_list)[k], "id")
                         \/ Malformed(Iter(discussions_list)[k], "read_state"))
                  => \E i \in 1..Len(reqs) : reqs[i] = PutReadAll(course_id, t.d.id)

\* C7: the run that follows a run that returned issues no PUT and no POST.
C7_SecondRunIdle == run = 2 => ~mutated

C7_Witness ==
    /\ run = 2 /\ pc = "done" /\ prevMutated /\ args.all
    /\ \E c \in 1..MaxCourses : srv.topics[c].known /\ Len(srv.topics[c].recs) > 0
    /\ Len(srv.planner.recs) > 0

\* C8: after a topic-list GET that is not a success no other request is made
\* for that course, every later course with an id has the routine run, and
\* main returns 0.
Refused(j) ==
    /\ ~Malformed(Iter(courses_list)[j], "id")
    /\ srv.topics[Iter(courses_list)[j].d.id].known
    /\ srv.topics[Iter(courses_list)[j].d.id].status # 200

C8_RefusedCourseSkipped ==
    /\ (pc = "course_loop" /\ cidx > 1 /\ Refused(cidx - 1)) =>
          reqs = <<GetListing("topics", Iter(courses_list)[cidx - 1].d.id)>>
    /\ (Terminal /\ pc \in {"done", "course_loop", "disc_loop"}
        /\ \E j \in 1..Len(Iter(courses_list)) : j < cidx /\ Refused(j)) =>
          /\ pc = "done" /\ exit_code = 0
          /\ cidx > Len(Iter(courses_list))

\* C9: once a primary listing call (courses, a course's topics, planner
\* items) has answered with a status that is not a success, the phase issues
\* no follow-up GET, no PUT and no POST.
C9_ListingFailureAborts ==
    /\ ((pc = "todo_loop" \/ (InHelper /\ caller = "todos")) /\ srv.planner.status # 200)
          => reqs = <<GetListing("planner", 0)>>
    /\ (srv.courses.known /\ srv.courses.status # 200)
          => (pc = "done" /\ reqs = <<GetListing("courses", 0)>>)
    /\ (pc = "disc_loop" \/ (InHelper /\ caller = "discussions"))
          => srv.topics[course_id].status = 200

\* C10: get_paginated_list returns once the server stops advertising a next
\* link, and never returns while every response advertises one.
C10_TerminatesWithServer ==
    /\ [](InHelper /\ ~cfg.loops => <>(~InHelper))
    /\ [][(pc = "pag_loop" /\ cfg.loops /\ ~Entry(srv, ListingOf(caller)).err)
            => pc' = "pag_loop"]_vars

C10_Witness ==
    /\ pc = "pag_loop" /\ cfg.loops
    /\ followups > NumPages(srv, ListingOf(caller))

====
